---- MODULE Spec2Model ----
(***************************************************************************)
(* MCTP dissector (epan/dissectors/packet-mctp.c): header checks, the      *)
(* fragment / self-contained decision, the reassembly table keyed by       *)
(* (source address, destination address, id) and the hand-off of the       *)
(* complete message to the "mctp.type" dissector table.                    *)
(*                                                                         *)
(* A tvb is a record [reported_length, data]: data holds the captured      *)
(* bytes (TLA+ sequences are 1-based, so byte offset n is data[n + 1]),    *)
(* reported_length the length the packet had on the wire.                  *)
(***************************************************************************)
EXTENDS Integers, Sequences, FiniteSets

VARIABLES
    table,          \* mctp_reassembly_table: key -> fragments buffered so far
    tvb,            \* the packet handed to the last dissect_mctp call
    pinfo_entry,    \* pinfo as the caller passed it to that call
    pinfo,          \* pinfo when that call returned (or threw)
    outcome,        \* which path that call took
    next_tvb,       \* <<>> (NULL) or <<buffer>>: what line 210 tested
    handler_calls,  \* the calls of dissector_try_uint_new made by that call
    tree,           \* <<>> or <<the header fields that call added to the tree>>
    incomplete_reports, \* per key, the IncompleteReassembly reports made by
                    \* the last step (a session reset; none for a call)
    arrivals,       \* history: per flow, the fragment packets seen since the
                    \* flow's last end-of-message packet, in arrival order
    completed       \* history: the fragment packets of the flow that the last
                    \* call's end-of-message packet closed (<<>> otherwise)

vars == <<table, tvb, pinfo_entry, pinfo, outcome, next_tvb, handler_calls,
          tree, incomplete_reports, arrivals, completed>>

\* pinfo as the caller hands it over: nothing of this layer set yet.
EntryPinfo(in_fragment) ==
    [src |-> <<>>, dst |-> <<>>, dl_dst |-> <<>>, dl_src |-> <<>>,
     ptype |-> "PT_NONE", srcport |-> 0, destport |-> 0,
     fragmented |-> in_fragment]

---------------------------------------------------------------------------
(* Bounds of the model *)

\* Most fragments buffered in the whole reassembly table at any time.
MaxBuffered == 2

---------------------------------------------------------------------------
(* Bit arithmetic on unsigned bytes *)

RECURSIVE BitAnd(_, _)
BitAnd(a, b) ==
    IF a = 0 \/ b = 0 THEN 0
    ELSE (a % 2) * (b % 2) + 2 * BitAnd(a \div 2, b \div 2)

RECURSIVE BitXor(_, _)
BitXor(a, b) ==
    IF a = 0 THEN b
    ELSE IF b = 0 THEN a
    ELSE (((a % 2) + (b % 2)) % 2) + 2 * BitXor(a \div 2, b \div 2)

RECURSIVE Pow2(_)
Pow2(n) == IF n = 0 THEN 1 ELSE 2 * Pow2(n - 1)

---------------------------------------------------------------------------
(* tvbuff accessors used by dissect_mctp *)

MCTP_MIN_LENGTH == 5

tvb_reported_length(t) == t.reported_length

tvb_captured_length(t) == Len(t.data)

\* Whether the captured data holds the bytes [offset, offset + length).
tvb_bytes_exist(t, offset, length) == offset + length <= Len(t.data)

\* Bits are numbered from the most significant bit of byte 0.
tvb_get_bits8(t, bit_offset, no_of_bits) ==
    LET octet == t.data[(bit_offset \div 8) + 1]
    IN  (octet \div Pow2(8 - (bit_offset % 8) - no_of_bits)) % Pow2(no_of_bits)

tvb_get_guint8(t, offset) == t.data[offset + 1]

\* Captured bytes from offset to the end; 0 when offset is past the end.
tvb_captured_length_remaining(t, offset) ==
    IF offset <= Len(t.data) THEN Len(t.data) - offset ELSE 0

\* The bytes [offset, offset + length) of the captured data.
tvb_bytes(t, offset, length) == SubSeq(t.data, offset + 1, offset + length)

---------------------------------------------------------------------------
(* The reassembly table (epan/reassemble.c), as dissect_mctp uses it.  The  *)
(* table is registered with addresses_reassembly_table_functions: a key is  *)
(* the packet's source address, destination address and the id passed in.  *)
(* A buffered fragment is the sequence of bytes taken from its packet.      *)

addresses_key(pi, id) == <<pi.src, pi.dst, id>>

fragment_lookup(tbl, key) == IF key \in DOMAIN tbl THEN tbl[key] ELSE <<>>

fragment_insert(tbl, key, frags) ==
    [k \in DOMAIN tbl \cup {key} |-> IF k = key THEN frags ELSE tbl[k]]

fragment_unhash(tbl, key) == [k \in DOMAIN tbl \ {key} |-> tbl[k]]

\* fragment_add_seq_next: the fragment is appended after those already held
\* under the key (a head is created when there is none); with more_frags
\* clear the head is complete, leaves the table and is returned, otherwise
\* NULL (<<>>) is returned.
fragment_add_seq_next(tbl, key, item, more) ==
    LET frags == Append(fragment_lookup(tbl, key), item)
    IN  IF more
        THEN [table |-> fragment_insert(tbl, key, frags), fd_head |-> <<>>]
        ELSE [table |-> fragment_unhash(tbl, key), fd_head |-> frags]

RECURSIVE defragment(_)
defragment(frags) ==
    IF frags = <<>> THEN <<>>
    ELSE frags[1] \o defragment(Tail(frags))

\* process_reassembled_data: NULL for a NULL head, else a new buffer holding
\* the fragments' data in the order they were added.
process_reassembled_data(fd_head) ==
    IF fd_head = <<>> THEN <<>>
    ELSE <<[data |-> defragment(fd_head), frags |-> fd_head]>>

\* Variant: the table is never registered with the reassembly library.
reassembly_table_register_missing == {}

\* lines 337-338: the tables this dissector registers with the library, which
\* initialises a registered table when a capture session starts and releases
\* what it holds when the session is reset or torn down.
reassembly_table_register == {"mctp_reassembly_table"}

\* The library's clean-up of the table on session reset: every reassembly
\* still in the table is released and reported incomplete, once per key.
reassembly_table_cleanup(tbl) ==
    IF "mctp_reassembly_table" \in reassembly_table_register
    THEN [table |-> <<>>, incomplete_reports |-> [k \in DOMAIN tbl |-> 1]]
    ELSE [table |-> tbl, incomplete_reports |-> <<>>]

\* Fragments buffered in the whole table.
RECURSIVE buffered_count(_)
buffered_count(tbl) ==
    IF DOMAIN tbl = {} THEN 0
    ELSE LET k == CHOOSE x \in DOMAIN tbl : TRUE
         IN  Len(tbl[k]) + buffered_count(fragment_unhash(tbl, k))

---------------------------------------------------------------------------
(* dissect_mctp, expression by expression *)

\* Variant: only the 4 header bytes are required.
bogus_length_header_only(t) == tvb_reported_length(t) < MCTP_MIN_LENGTH - 1

\* line 117
bogus_length(t) == tvb_reported_length(t) < MCTP_MIN_LENGTH

\* Variant: the version is read from the high nibble of byte 0.
mctp_ver_high_nibble(t) == tvb_get_bits8(t, 0, 4)

\* line 123
mctp_ver(t) == tvb_get_bits8(t, 4, 4)

\* line 159
mctp_fst(t) == tvb_get_guint8(t, 3)

\* line 160
mctp_tag(f) == BitAnd(f, 15)

\* Variant: the masked bits are not shifted down.
mctp_seq_unshifted(f) == BitAnd(f, 48)

\* line 169: hf_mctp_seq has mask 0x30
mctp_seq(f) == BitAnd(f, 48) \div 16

\* lines 148-150 and 165-171: the header fields added to the protocol tree,
\* each the bits of its byte under the mask hf[] registers for it (lines
\* 226-276: 0x0f; none; none; 0x80; 0x40; 0x30; 0x08; 0x07), shifted down.
mctp_tree(t) ==
    [mctp_version |-> BitAnd(tvb_get_guint8(t, 0), 15),
     mctp_dst |-> tvb_get_guint8(t, 1),
     mctp_src |-> tvb_get_guint8(t, 2),
     mctp_flags_som |-> BitAnd(mctp_fst(t), 128) # 0,
     mctp_flags_eom |-> BitAnd(mctp_fst(t), 64) # 0,
     mctp_seq_value |-> mctp_seq(mctp_fst(t)),
     mctp_tag_to |-> BitAnd(mctp_fst(t), 8) # 0,
     mctp_tag_value |-> BitAnd(mctp_fst(t), 7)]

\* Variant: every bit of the tag is flipped.
mctp_destport_all_bits(tg) == BitXor(tg, 15)

\* line 176
mctp_destport(tg) == BitXor(tg, 8)

\* Variant: a packet with either flag set is handled as a fragment.
is_fragment_any_flag(f) == BitAnd(f, 192) # 0

\* line 184
is_fragment(f) == BitAnd(f, 192) # 192

\* Variant: the payload is taken from the last header byte on.
frag_offset_in_header == 4 - 1

\* lines 190 and 207: the payload starts after the 4-byte header
frag_offset == 4

\* Variant: the id keeps only two bits of the tag value.
frag_id_two_bits(f) == BitAnd(f, 3)

\* line 191
frag_id(f) == BitAnd(f, 7)

\* line 192
frag_data_len(t) == tvb_captured_length_remaining(t, frag_offset)

\* Variant: the negation is missing.
more_frags_unnegated(f) == BitAnd(f, 64) # 0

\* Variant: the start-of-message bit is tested instead of end-of-message.
more_frags_som_bit(f) == ~(BitAnd(f, 128) # 0)

\* line 193
more_frags(f) == ~(BitAnd(f, 64) # 0)

\* Variant: the destination is read from byte 2 and the source from byte 1.
set_addresses_swapped(pi, t) ==
    [pi EXCEPT !.dl_dst = tvb_bytes(t, 2, 1), !.dl_src = tvb_bytes(t, 1, 1),
               !.dst = tvb_bytes(t, 2, 1), !.src = tvb_bytes(t, 1, 1)]

\* lines 133-136
set_addresses(pi, t) ==
    [pi EXCEPT !.dl_dst = tvb_bytes(t, 1, 1), !.dl_src = tvb_bytes(t, 2, 1),
               !.dst = tvb_bytes(t, 1, 1), !.src = tvb_bytes(t, 2, 1)]

\* lines 174-176
set_ports(pi, f) ==
    [pi EXCEPT !.ptype = "PT_MCTP", !.srcport = mctp_tag(f),
               !.destport = mctp_destport(mctp_tag(f))]

\* line 207
tvb_new_subset_remaining(t, offset) ==
    <<[data |-> tvb_bytes(t, offset, tvb_captured_length_remaining(t, offset)),
       frags |-> <<>>]>>

\* Variant: the whole type byte, reserved top bit included, is the table key.
dispatch_whole_type_byte(buf, pi) ==
    [tvb |-> buf.data, fragmented |-> pi.fragmented,
     uint_val |-> tvb_get_guint8(buf, 0)]

\* lines 211-213: the call made on the complete message: the buffer handed
\* over, pinfo->fragmented as the handler finds it, and the table key.
dispatch(buf, pi) ==
    [tvb |-> buf.data, fragmented |-> pi.fragmented,
     uint_val |-> BitAnd(tvb_get_guint8(buf, 0), 127)]

\* What one call leaves behind.
Result(tbl, pi, how, next, calls, items) ==
    [table |-> tbl, pinfo |-> pi, outcome |-> how, next_tvb |-> next,
     handler_calls |-> calls, tree |-> items]

\* Variant: line 216 is missing, the saved flag is never put back.
dispatch_and_return_unrestored(tbl, pi, save_fragmented, next, items) ==
    IF next = <<>>
    THEN Result(tbl, pi, "buffered", next, <<>>, items)
    ELSE IF ~tvb_bytes_exist(next[1], 0, 1)
    THEN Result(tbl, pi, "exception", next, <<>>, items)
    ELSE Result(tbl, pi, "dispatched", next, <<dispatch(next[1], pi)>>, items)

\* lines 210-218, after next_tvb is known.  Reading the type byte of an empty
\* buffer throws, and the function is left at line 211.
dispatch_and_return(tbl, pi, save_fragmented, next, items) ==
    IF next = <<>>
    THEN Result(tbl, [pi EXCEPT !.fragmented = save_fragmented],
                "buffered", next, <<>>, items)
    ELSE IF ~tvb_bytes_exist(next[1], 0, 1)
    THEN Result(tbl, pi, "exception", next, <<>>, items)
    ELSE Result(tbl, [pi EXCEPT !.fragmented = save_fragmented],
                "dispatched", next, <<dispatch(next[1], pi)>>, items)

\* lines 184-208
reassemble(tbl, pi, t, f) ==
    LET item == tvb_bytes(t, frag_offset, frag_data_len(t))
        added == fragment_add_seq_next(tbl, addresses_key(pi, frag_id(f)),
                                       item, more_frags(f))
    IN  [table |-> added.table,
         next_tvb |-> process_reassembled_data(added.fd_head)]

\* lines 100-219
dissect_mctp_result(tbl, t, pi) ==
    IF bogus_length(t)
    THEN Result(tbl, pi, "bogus_length", <<>>, <<>>, <<>>)
    ELSE IF ~tvb_bytes_exist(t, 0, 1)
    THEN Result(tbl, pi, "exception", <<>>, <<>>, <<>>)
    ELSE IF mctp_ver(t) # 1
    THEN Result(tbl, pi, "bad_version", <<>>, <<>>, <<>>)
    ELSE IF ~tvb_bytes_exist(t, 0, 4)
    THEN Result(tbl, pi, "exception", <<>>, <<>>, <<>>)
    ELSE
      LET f == mctp_fst(t)
          pi1 == set_ports(set_addresses(pi, t), f)
          save_fragmented == pi1.fragmented
          items == <<mctp_tree(t)>>
      IN  IF is_fragment(f)
          THEN LET pi2 == [pi1 EXCEPT !.fragmented = TRUE]
                   r == reassemble(tbl, pi2, t, f)
               IN  dispatch_and_return(r.table, pi2, save_fragmented,
                                       r.next_tvb, items)
          ELSE dispatch_and_return(tbl, pi1, save_fragmented,
                                   tvb_new_subset_remaining(t, frag_offset),
                                   items)

\* The call as a step: r is what dissect_mctp_result computes for it.
dissect_mctp(r, t, pi) ==
    /\ tvb' = t
    /\ pinfo_entry' = pi
    /\ table' = r.table
    /\ pinfo' = r.pinfo
    /\ outcome' = r.outcome
    /\ next_tvb' = r.next_tvb
    /\ handler_calls' = r.handler_calls
    /\ tree' = r.tree

---------------------------------------------------------------------------
(* The header fields as the field table registers them (hf[], byte 3 masks  *)
(* 0x80, 0x40, 0x30, 0x08, 0x07; byte 0 mask 0x0f), read from raw bytes.    *)
(* The histories and the properties below are written with these, never     *)
(* with the expressions of dissect_mctp.                                    *)

HdrVersion(frame) == frame[1] % 16
HdrDst(frame) == frame[2]
HdrSrc(frame) == frame[3]
HdrSOM(frame) == (frame[4] \div 128) % 2 = 1
HdrEOM(frame) == (frame[4] \div 64) % 2 = 1
HdrSeq(frame) == (frame[4] \div 16) % 4
HdrTagOwner(frame) == (frame[4] \div 8) % 2
HdrTagValue(frame) == frame[4] % 8

\* The bytes of a packet from offset 4 on.
PayloadOf(frame) == SubSeq(frame, 5, Len(frame))

\* A packet whose header passes both checks and whose 4 header bytes are there.
HeaderValid(t) ==
    /\ t.reported_length >= 5
    /\ Len(t.data) >= 4
    /\ HdrVersion(t.data) = 1

FragmentPacket(t) ==
    HeaderValid(t) /\ ~(HdrSOM(t.data) /\ HdrEOM(t.data))

SelfContainedPacket(t) ==
    HeaderValid(t) /\ HdrSOM(t.data) /\ HdrEOM(t.data)

\* A flow: source address, destination address, 3-bit tag value.
FlowOf(frame) == <<HdrSrc(frame), HdrDst(frame), HdrTagValue(frame)>>

\* The reassembly-table key under which a flow's fragments are looked for.
KeyOfFlow(fl) == <<<<fl[1]>>, <<fl[2]>>, fl[3]>>

ArrivalsOf(arr, fl) == IF fl \in DOMAIN arr THEN arr[fl] ELSE <<>>

RecordArrival(arr, t) ==
    IF ~FragmentPacket(t) THEN arr
    ELSE LET fl == FlowOf(t.data)
         IN  IF HdrEOM(t.data)
             THEN [x \in DOMAIN arr \ {fl} |-> arr[x]]
             ELSE [x \in DOMAIN arr \cup {fl} |->
                     IF x = fl THEN Append(ArrivalsOf(arr, fl), t.data)
                     ELSE arr[x]]

RecordCompleted(arr, t) ==
    IF FragmentPacket(t) /\ HdrEOM(t.data)
    THEN Append(ArrivalsOf(arr, FlowOf(t.data)), t.data)
    ELSE <<>>

RECURSIVE ConcatPayloads(_)
ConcatPayloads(frames) ==
    IF frames = <<>> THEN <<>>
    ELSE PayloadOf(frames[1]) \o ConcatPayloads(Tail(frames))

PayloadsOf(frames) == [i \in 1..Len(frames) |-> PayloadOf(frames[i])]

---------------------------------------------------------------------------
(* Packets offered to the dissector *)

\* A packet with header bytes b0, dst, src, f and the given payload, of which
\* `missing` further bytes were on the wire but not captured.
Packet(b0, dst, src, f, payload, missing) ==
    [reported_length |-> 4 + Len(payload) + missing,
     data |-> <<b0, dst, src, f>> \o payload]

\* SOM seq 0, middle seq 1, middle seq 3, EOM seq 0, EOM seq 2, SOM|EOM seq 0
FlagSeqs == {128, 16, 48, 64, 96, 192}

\* One flow (dst 8, src 9, tag 1, owner bit clear) with every flag and
\* sequence pattern, two payloads, and a capture cut right after the header.
RichPackets ==
    {Packet(17, 8, 9, fs + 1, pl, 0) : fs \in FlagSeqs, pl \in {<<1>>, <<129, 2>>}}
    \cup {Packet(17, 8, 9, fs + 1, <<>>, 1) : fs \in {128, 16, 64, 192}}

\* Flows that differ from it in source, in destination, in tag value, and in
\* the tag-owner bit only: <<dst, src, low nibble of byte 3>>.
OtherFlows == {<<8, 10, 1>>, <<7, 9, 1>>, <<8, 9, 5>>, <<8, 9, 9>>}

FlowPackets ==
    {Packet(17, fl[1], fl[2], fs + fl[3], <<3>>, 0) :
        fl \in OtherFlows, fs \in {128, 16, 64}}

\* Reported length below 5, version nibble not 1, header bytes not captured.
MalformedPackets ==
    {[reported_length |-> 4, data |-> <<17, 8, 9, 129>>],
     [reported_length |-> 0, data |-> <<>>],
     Packet(16, 8, 9, 129, <<1>>, 0),
     Packet(18, 8, 9, 65, <<1>>, 0),
     [reported_length |-> 5, data |-> <<17, 8>>],
     [reported_length |-> 5, data |-> <<>>]}

\* The self-contained packet 11 08 09 C0 01 AA BB: type 0x01, body AA BB.
ExamplePackets == {Packet(17, 8, 9, 192, <<1, 170, 187>>, 0)}

Packets ==
    RichPackets \cup FlowPackets \cup MalformedPackets \cup ExamplePackets

\* The header checks and the field decoding, over every value of byte 3.
CodecPackets ==
    {Packet(b0, a[1], a[2], f, <<1>>, 0) :
        b0 \in {1, 17, 241, 16, 18, 31},
        a \in {<<0, 255>>, <<8, 9>>, <<255, 0>>},
        f \in 0..255}
    \cup {[reported_length |-> n, data |-> SubSeq(<<17, 8, 9, 192>>, 1, n)] :
            n \in 0..4}
    \cup {[reported_length |-> 6, data |-> SubSeq(<<17, 8, 9, 192>>, 1, n)] :
            n \in 0..4}

---------------------------------------------------------------------------
(* The state machine *)

Init ==
    /\ table = <<>>
    /\ tvb = [reported_length |-> 0, data |-> <<>>]
    /\ pinfo_entry = EntryPinfo(FALSE)
    /\ pinfo = EntryPinfo(FALSE)
    /\ outcome = "init"
    /\ next_tvb = <<>>
    /\ handler_calls = <<>>
    /\ tree = <<>>
    /\ incomplete_reports = <<>>
    /\ arrivals = <<>>
    /\ completed = <<>>

\* One call of dissect_mctp on packet t, with the histories kept beside it;
\* the call is taken only if it leaves at most `limit` fragments buffered.
Dissect(t, pi, limit) ==
    \E r \in {dissect_mctp_result(table, t, pi)} :
        /\ buffered_count(r.table) <= limit
        /\ dissect_mctp(r, t, pi)
        /\ incomplete_reports' = <<>>
        /\ arrivals' = RecordArrival(arrivals, t)
        /\ completed' = RecordCompleted(arrivals, t)

DissectPacket ==
    \E t \in Packets, fragmented \in {FALSE} :
        Dissect(t, EntryPinfo(fragmented), MaxBuffered)

Next == DissectPacket

Spec == Init /\ [][Next]_vars

\* A capture session is reset (the capture file is closed or reloaded): the
\* library cleans the registered table up; no call is the last one any more.
SessionReset ==
    \E r \in {reassembly_table_cleanup(table)} :
        /\ table' = r.table
        /\ incomplete_reports' = r.incomplete_reports
        /\ tvb' = [reported_length |-> 0, data |-> <<>>]
        /\ pinfo_entry' = EntryPinfo(FALSE)
        /\ pinfo' = EntryPinfo(FALSE)
        /\ outcome' = "reset"
        /\ next_tvb' = <<>>
        /\ handler_calls' = <<>>
        /\ tree' = <<>>
        /\ arrivals' = <<>>
        /\ completed' = <<>>

\* Packets of a session, with resets between them at any time.
NextSession == DissectPacket \/ SessionReset

SpecSession == Init /\ [][NextSession]_vars

\* The header codec alone: one packet drawn from the whole header space and
\* dissected in the initial state.
DissectCodecPacket ==
    \E t \in CodecPackets, fragmented \in BOOLEAN :
        /\ outcome = "init"
        /\ Dissect(t, EntryPinfo(fragmented), 1)

NextCodec == DissectCodecPacket

SpecCodec == Init /\ [][NextCodec]_vars

---------------------------------------------------------------------------
(* Properties *)

\* The last call handed a reassembled message to the dissector table.
Reassembled == outcome = "dispatched" /\ FragmentPacket(tvb)

\* First packet SOM, last packet EOM, the packets between with neither flag.
WellFormedSequence(frames) ==
    /\ Len(frames) >= 2
    /\ HdrSOM(frames[1]) /\ ~HdrEOM(frames[1])
    /\ HdrEOM(frames[Len(frames)]) /\ ~HdrSOM(frames[Len(frames)])
    /\ \A i \in 2..(Len(frames) - 1) : ~HdrSOM(frames[i]) /\ ~HdrEOM(frames[i])

\* C1: when the fragment packets of a flow (source, destination, tag) since
\* its last completed message are SOM, then packets with neither flag, then
\* EOM, the message handed to the dissector table on the EOM packet is the
\* concatenation of their bytes from offset 4 on, in arrival order, whatever
\* their sequence fields are.
C1_ArrivalOrderConcatenation ==
    (Reassembled /\ WellFormedSequence(completed)) =>
        /\ Len(handler_calls) = 1
        /\ handler_calls[1].tvb = ConcatPayloads(completed)

\* Three fragments SOM seq 0, middle seq 3, EOM seq 0 (out of order and
\* duplicated sequence values) with different payloads were reassembled.
C1_Witness ==
    /\ Reassembled
    /\ WellFormedSequence(completed)
    /\ Len(completed) = 3
    /\ HdrSeq(completed[1]) = 0
    /\ HdrSeq(completed[2]) = 3
    /\ HdrSeq(completed[3]) = 0
    /\ PayloadOf(completed[1]) # PayloadOf(completed[2])
    /\ handler_calls[1].tvb = ConcatPayloads(completed)

\* The fragment packets from the last one carrying SOM onward.
RECURSIVE FromLastSOM(_)
FromLastSOM(frames) ==
    IF frames = <<>> THEN <<>>
    ELSE IF \E i \in 2..Len(frames) : HdrSOM(frames[i])
    THEN FromLastSOM(Tail(frames))
    ELSE frames

\* C2: a SOM fragment on a flow with a reassembly in progress (one that a SOM
\* fragment began) discards what was buffered: the message dispatched on EOM
\* holds only the payloads from the last SOM packet onward.
C2_RestartDiscardsPartial ==
    (Reassembled /\ HdrSOM(completed[1])) =>
        handler_calls[1].tvb = ConcatPayloads(FromLastSOM(completed))

C4_FlowsNeverMixed ==
    /\ \A fl \in DOMAIN arrivals :
          /\ KeyOfFlow(fl) \in DOMAIN table
          /\ table[KeyOfFlow(fl)] = PayloadsOf(arrivals[fl])
    /\ \A k \in DOMAIN table : \E fl \in DOMAIN arrivals : k = KeyOfFlow(fl)
    /\ Reassembled => handler_calls[1].tvb = ConcatPayloads(completed)

\* A two-fragment message was completed while another flow, whose pending
\* fragment has the same sequence number as the message's first, is buffered.
C4_Witness ==
    /\ Reassembled
    /\ Len(completed) = 2
    /\ \E fl \in DOMAIN arrivals :
          /\ fl # FlowOf(tvb.data)
          /\ HdrSeq(arrivals[fl][1]) = HdrSeq(completed[1])
          /\ PayloadOf(arrivals[fl][1]) # PayloadOf(completed[1])

\* The packets among frames whose tag-owner bit is `owner`.
RECURSIVE WithOwner(_, _)
WithOwner(frames, owner) ==
    IF frames = <<>> THEN <<>>
    ELSE IF HdrTagOwner(frames[1]) = owner
    THEN <<frames[1]>> \o WithOwner(Tail(frames), owner)
    ELSE WithOwner(Tail(frames), owner)

\* C5: the tag-owner bit is part of the flow key: a reassembled message holds
\* only the payloads of packets whose tag-owner bit is that of the packet
\* completing it.
C5_TagOwnerSeparatesFlows ==
    Reassembled =>
        handler_calls[1].tvb =
            ConcatPayloads(WithOwner(completed, HdrTagOwner(tvb.data)))

C7_NoDispatchBeforeEOM ==
    [][(FragmentPacket(tvb') /\ ~HdrEOM(tvb'.data)) =>
        LET k == KeyOfFlow(FlowOf(tvb'.data))
        IN  /\ handler_calls' = <<>>
            /\ next_tvb' = <<>>
            /\ outcome' = "buffered"
            /\ k \in DOMAIN table'
            /\ table'[k] = Append(IF k \in DOMAIN table THEN table[k] ELSE <<>>,
                                  PayloadOf(tvb'.data))]_vars

\* A second fragment without EOM was buffered behind the first.
C7_Witness ==
    /\ FragmentPacket(tvb)
    /\ ~HdrEOM(tvb.data)
    /\ outcome = "buffered"
    /\ handler_calls = <<>>
    /\ Len(table[KeyOfFlow(FlowOf(tvb.data))]) = 2

\* Reported length below 5, or a version nibble that is not 1.
MalformedHeader(t) ==
    \/ t.reported_length < 5
    \/ Len(t.data) >= 1 /\ HdrVersion(t.data) # 1

\* C8: a packet with a malformed header causes no handler call and leaves
\* the reassembly table, the only state kept between calls, as it was.
C8_MalformedLeavesStateAlone ==
    [][MalformedHeader(tvb') =>
        /\ table' = table
        /\ handler_calls' = <<>>
        /\ next_tvb' = <<>>
        /\ outcome' \in {"bogus_length", "bad_version"}]_vars

\* A 4-byte packet (valid version, SOM set) was rejected while a reassembly
\* was in progress.
C8_Witness ==
    /\ outcome = "bogus_length"
    /\ Len(tvb.data) = 4
    /\ HdrSOM(tvb.data)
    /\ DOMAIN table # {}

\* C9: a packet is rejected for its length exactly when its reported length
\* is below 5, and a packet whose header bytes are captured passes the header
\* checks exactly when its reported length is at least 5 and the low nibble
\* of byte 0 is 1, whatever the high nibble of byte 0, the address bytes and
\* byte 3 are.
C9_AcceptedIffLengthAndVersion ==
    outcome # "init" =>
        /\ (outcome = "bogus_length") <=> (tvb.reported_length < 5)
        /\ Len(tvb.data) >= 4 =>
            ((outcome \in {"buffered", "dispatched", "exception"})
                <=> (tvb.reported_length >= 5 /\ tvb.data[1] % 16 = 1))

\* A packet with high nibble 15, addresses 255 and 0, and byte 3 = 0x3f was
\* accepted.
C9_Witness ==
    /\ outcome = "buffered"
    /\ tvb.data = <<241, 255, 0, 63, 1>>

\* C10: a fragment without SOM arriving on a flow key with no reassembly in
\* progress creates no state and is not dispatched.
C10_StateOnlyFromSOM ==
    [][(/\ FragmentPacket(tvb')
        /\ ~HdrSOM(tvb'.data)
        /\ KeyOfFlow(FlowOf(tvb'.data)) \notin DOMAIN table) =>
            /\ KeyOfFlow(FlowOf(tvb'.data)) \notin DOMAIN table'
            /\ handler_calls' = <<>>]_vars

\* C11: a session reset leaves the reassembly table empty for every key, and
\* a message reassembled afterwards holds the payloads of the fragment packets
\* of its flow that arrived since the reset (and since the flow's last
\* end-of-message packet), nothing buffered before it.
C11_ResetEmptiesTable ==
    [][/\ outcome' = "reset" => table' = <<>>
       /\ Reassembled' =>
            handler_calls'[1].tvb = ConcatPayloads(completed')]_vars

\* A reset was made while two flows had fragments buffered.
C11_Witness ==
    /\ outcome = "reset"
    /\ Cardinality(DOMAIN incomplete_reports) = 2
    /\ table = <<>>

\* C12: at session teardown exactly one IncompleteReassembly is reported for
\* each flow with fragment packets since its last end-of-message packet (the
\* flows whose reassembly never reached EOM), and none for a flow whose
\* message completed or from which no fragment arrived.
C12_OneReportPerUnfinishedFlow ==
    [][outcome' = "reset" =>
        /\ DOMAIN incomplete_reports' =
              {KeyOfFlow(fl) : fl \in DOMAIN arrivals}
        /\ \A k \in DOMAIN incomplete_reports' :
              incomplete_reports'[k] = 1]_vars

\* A teardown reported exactly one incomplete reassembly, for flow
\* (source 9, destination 8, tag 1).
C12_Witness ==
    /\ outcome = "reset"
    /\ DOMAIN incomplete_reports = {<<<<9>>, <<8>>, 1>>}
    /\ incomplete_reports[<<<<9>>, <<8>>, 1>>] = 1

\* C13: the dissector table is looked up under the low 7 bits of the first
\* byte of the complete message, a code in 0..127, whether the message is a
\* packet's own payload or a reassembled buffer: bit 7 of the byte plays no
\* part.
C13_HandlerByLowSevenBits ==
    outcome = "dispatched" =>
        /\ Len(handler_calls) = 1
        /\ handler_calls[1].uint_val = next_tvb[1].data[1] % 128
        /\ handler_calls[1].uint_val \in 0..127

\* A reassembled message whose first byte is 0x81 was looked up under type 1,
\* the code of a first byte 0x01.
C13_Witness ==
    /\ Reassembled
    /\ Len(completed) = 2
    /\ next_tvb[1].data[1] = 129
    /\ handler_calls[1].uint_val = 1

\* C14: the handler is given the bytes of the complete message that follow
\* the message-type byte, not the type byte itself.
C14_HandlerGetsBodyOnly ==
    outcome = "dispatched" =>
        handler_calls[1].tvb = Tail(next_tvb[1].data)

\* C15: for every value of header byte 3 the fields decoded from it are
\* start-of-message = bit 7, end-of-message = bit 6, sequence = bits 5-4,
\* tag owner = bit 3, tag value = bits 2-0, and the code's decisions follow
\* the same bits: the packet is handled as a fragment unless both flags are
\* set, the fragment is the last one exactly when end-of-message is set, and
\* a buffered fragment is held under the id that is the tag value.
C15_ByteThreeBits ==
    tree # <<>> =>
        LET f == tvb.data[4]
            it == tree[1]
            as_fragment == next_tvb = <<>> \/ next_tvb[1].frags # <<>>
        IN  /\ it.mctp_flags_som = ((f \div 128) % 2 = 1)
            /\ it.mctp_flags_eom = ((f \div 64) % 2 = 1)
            /\ it.mctp_seq_value = (f \div 16) % 4
            /\ it.mctp_tag_to = ((f \div 8) % 2 = 1)
            /\ it.mctp_tag_value = f % 8
            /\ as_fragment <=> ~(it.mctp_flags_som /\ it.mctp_flags_eom)
            /\ as_fragment => ((next_tvb # <<>>) <=> it.mctp_flags_eom)
            /\ outcome = "buffered" =>
                  DOMAIN table = {<<<<it.mctp_src>>, <<it.mctp_dst>>,
                                    it.mctp_tag_value>>}

\* Byte 3 = 0xbd (SOM, sequence 3, tag owner set, tag value 5) was decoded
\* and the packet buffered under id 5.
C15_Witness ==
    /\ tree # <<>>
    /\ tvb.data[4] = 189
    /\ tree[1].mctp_seq_value = 3
    /\ outcome = "buffered"
    /\ \E k \in DOMAIN table : k[3] = 5

\* The value v (below 16) with bit 3, the tag-owner bit, flipped.
FlipTagOwner(v) == IF (v \div 8) % 2 = 1 THEN v - 8 ELSE v + 8

\* What dissect_mctp publishes in pinfo is what the caller passed in.
NothingPublished ==
    /\ pinfo.srcport = pinfo_entry.srcport
    /\ pinfo.destport = pinfo_entry.destport
    /\ pinfo.ptype = pinfo_entry.ptype
    /\ pinfo.src = pinfo_entry.src
    /\ pinfo.dst = pinfo_entry.dst
    /\ pinfo.dl_src = pinfo_entry.dl_src
    /\ pinfo.dl_dst = pinfo_entry.dl_dst

\* C16 as stated: after a valid header is decoded the source port is the
\* header's tag value (bits 2-0 of byte 3) and the destination port is that
\* value with the tag-owner bit flipped; after a malformed header the ports
\* and addresses are unchanged.
C16_PortsFromTagValue ==
    /\ tree # <<>> =>
          /\ pinfo.srcport = tree[1].mctp_tag_value
          /\ pinfo.destport = FlipTagOwner(tree[1].mctp_tag_value)
    /\ (outcome # "init" /\ MalformedHeader(tvb)) => NothingPublished

\* C16, amended: after a valid header is decoded the source port is the
\* 4-bit tag, the low nibble of byte 3 (tag-owner bit and tag value), and the
\* destination port is that tag with the tag-owner bit flipped; after a
\* malformed header the ports and addresses are unchanged.
C16_PortsFromTag ==
    /\ tree # <<>> =>
          /\ pinfo.srcport = tvb.data[4] % 16
          /\ pinfo.srcport =
                (IF tree[1].mctp_tag_to THEN 8 ELSE 0) + tree[1].mctp_tag_value
          /\ pinfo.destport = FlipTagOwner(pinfo.srcport)
          /\ pinfo.ptype = "PT_MCTP"
    /\ (outcome # "init" /\ MalformedHeader(tvb)) => NothingPublished

\* A header with the tag-owner bit set and tag value 5 was decoded: source
\* port 13, destination port 5.
C16_Witness ==
    /\ tree # <<>>
    /\ tree[1].mctp_tag_to
    /\ tree[1].mctp_tag_value = 5
    /\ pinfo.srcport = 13
    /\ pinfo.destport = 5

\* The 4 header bytes that hold the given Header fields, with the reserved
\* upper nibble of byte 0 clear.
EncodeHeader(h) ==
    <<h.mctp_version, h.mctp_dst, h.mctp_src,
      (IF h.mctp_flags_som THEN 128 ELSE 0)
        + (IF h.mctp_flags_eom THEN 64 ELSE 0)
        + 16 * h.mctp_seq_value
        + (IF h.mctp_tag_to THEN 8 ELSE 0)
        + h.mctp_tag_value>>

\* C17 as stated: for every valid header, encoding the decoded fields gives
\* back the original 4 bytes.
C17_RoundTrip ==
    tree # <<>> => EncodeHeader(tree[1]) = SubSeq(tvb.data, 1, 4)

\* C17, amended: for every valid header, encoding the decoded fields gives
\* back bytes 1, 2 and 3 and the low nibble of byte 0; the reserved upper
\* nibble of byte 0 is not a Header field and comes back as zero, so the 4
\* bytes are reproduced exactly when that nibble is zero.
C17_RoundTripButReservedNibble ==
    tree # <<>> =>
        LET enc == EncodeHeader(tree[1])
        IN  /\ enc[1] = tvb.data[1] % 16
            /\ SubSeq(enc, 2, 4) = SubSeq(tvb.data, 2, 4)
            /\ (tvb.data[1] \div 16 = 0) => enc = SubSeq(tvb.data, 1, 4)

\* The header 01 ff 00 7a (sequence 3, tag owner set, tag value 2) was
\* decoded and encodes back to itself.
C17_Witness ==
    /\ tree # <<>>
    /\ SubSeq(tvb.data, 1, 4) = <<1, 255, 0, 122>>
    /\ EncodeHeader(tree[1]) = <<1, 255, 0, 122>>

\* What the table holds under key k (<<>> when it holds nothing).
Held(tbl, k) == IF k \in DOMAIN tbl THEN tbl[k] ELSE <<>>

\* C18: a call changes what the reassembly table holds under at most one
\* key, the key of the packet's own flow (source, destination, tag value);
\* a packet with a malformed header, or whose header bytes are missing,
\* changes nothing under any key.
C18_OtherFlowsUntouched ==
    [][\A k \in DOMAIN table \cup DOMAIN table' :
          Held(table', k) # Held(table, k) =>
              /\ HeaderValid(tvb')
              /\ k = KeyOfFlow(FlowOf(tvb'.data))]_vars

\* A flow's message was completed, its state removed, while two other flows
\* kept a fragment buffered.
C18_Witness ==
    /\ Reassembled
    /\ KeyOfFlow(FlowOf(tvb.data)) \notin DOMAIN table
    /\ Cardinality(DOMAIN table) = 2

\* C19: every buffer whose message-type byte the dispatch reads, for a
\* packet of reported length at least 5, holds at least one byte, also when
\* fewer bytes were captured than reported.
C19_DispatchBufferNonEmpty ==
    next_tvb # <<>> => Len(next_tvb[1].data) >= 1

\* C20: pinfo->fragmented is the same when dissect_mctp returns as when it
\* was called, on each return path (rejected header, fragment buffered,
\* message dispatched from one packet or from a reassembly), and a handler
\* finds it different from the caller's value only when the packet is a
\* fragment.
C20_FragmentedRestored ==
    /\ outcome \in {"bogus_length", "bad_version", "buffered", "dispatched"}
          => pinfo.fragmented = pinfo_entry.fragmented
    /\ (handler_calls # <<>>
            /\ handler_calls[1].fragmented # pinfo_entry.fragmented)
          => FragmentPacket(tvb)

\* A fragment (middle, no flag set) was buffered in a call entered with the
\* flag false, and the call returned with the flag false.
C20_Witness ==
    /\ outcome = "buffered"
    /\ FragmentPacket(tvb)
    /\ ~HdrSOM(tvb.data)
    /\ ~pinfo_entry.fragmented
    /\ ~pinfo.fragmented

====
